---- MODULE Spec2Model ----
(***************************************************************************)
(* Model of git-branch-cleanup/scripts/git_branch_cleanup.py:              *)
(* GitBranchCleanup (classification of local branches, staleness           *)
(* predicate, interactive deletion) and main().                            *)
(*                                                                         *)
(* Text is modelled structurally: a branch name is a string; the           *)
(* trackshort field is a sequence of one-character strings; a commit date  *)
(* ('%ci') is the sequence of its whitespace-separated tokens.  A point in *)
(* time (datetime) is a number of ticks, TicksPerDay ticks to a day.       *)
(***************************************************************************)
EXTENDS Integers, Sequences, FiniteSets, TLC

\* ------------------------------------------------------------------ bounds
MaxDay == 2            \* calendar days are 0..MaxDay; today is MaxDay
TicksPerDay == 2       \* resolution of the time of day (tick 0 is midnight)
MaxStaleDays == 1      \* --stale-days ranges over -1..MaxStaleDays

Days == 0..MaxDay
Tods == 0..(TicksPerDay - 1)
StaleDaysInputs == (0 - 1)..MaxStaleDays

\* ------------------------------------------------------- program constants
MERGED == "merged"
GONE_REMOTE == "gone_remote"
AHEAD == "ahead"
STALE == "stale"
UNMERGED == "unmerged"
BranchCategory == {MERGED, GONE_REMOTE, AHEAD, STALE, UNMERGED}

PROTECTED_BRANCHES == {"main", "master", "trunk", "develop", "development"}

\* ------------------------------------------------- the repository (inputs)
\* Output of `git for-each-ref refs/heads/`: the local branches, one protected
\* name and one other; either may be the checked-out branch.  The loop handles
\* the branches independently of one another (names are unique).
LocalBranches == <<"feat", "main">>
BranchNames == {LocalBranches[i] : i \in 1..Len(LocalBranches)}
CurrentBranchInputs == BranchNames \cup {""}

None == <<"None">>
TrackshortInputs == {None, <<>>, <<"=">>, <<"<">>, <<">">>, <<"<", ">">>}

Tok(k, v) == [kind |-> k, val |-> v]
CiDate(d, t) == <<Tok("date", d), Tok("time", t), Tok("tz", 0)>>
CommitDateInputs ==
    {<<>>, <<Tok("text", 0)>>} \cup {CiDate(d, t) : d \in Days, t \in Tods}

ConfirmationInputs == {"y", "Y", "n", "yes", ""}
ChoiceInputs == {"1", "2", "3", "4", ""}
SelectionInputs == {<<>>, <<"feat">>, <<"main">>, <<"feat", "main">>, <<"other">>}

\* ------------------------------------------------------------------- state
VARIABLES
    pc,               \* position of the program
    stale_days,       \* self.stale_days
    dry_run,          \* self.dry_run
    current_branch,   \* self.current_branch
    now,              \* the clock read by datetime.now(): [day, tod]
    merged_branches,  \* analyze_branches: set parsed from `branch --merged`
    unmerged_branches,\* analyze_branches: set parsed from `branch --no-merged`
    gone_branches,    \* analyze_branches: set parsed from `branch -vv`
    facts,            \* info_dict of every branch _get_branch_info was asked about
    categories,       \* result of analyze_branches
    choice,           \* run: the menu answer
    branches,         \* argument of delete_branches
    force,            \* argument of delete_branches
    confirmation,     \* delete_branches: the answer to the prompt
    deletes,          \* the `git branch -d/-D` commands issued, in order
    events,           \* what the program has done so far, in order
    arg_commit_date,  \* argument of a direct _is_stale call
    ret_is_stale      \* its result: "pending", "True" or "False"

vars == <<pc, stale_days, dry_run, current_branch, now, merged_branches,
          unmerged_branches, gone_branches, facts, categories, choice,
          branches, force, confirmation, deletes, events, arg_commit_date,
          ret_is_stale>>

\* ------------------------------------------------------------- pure helpers
Contains(s, c) == \E i \in 1..Len(s) : s[i] = c

Truthy(s) == s # None /\ s # <<>>

Names(list) == [i \in 1..Len(list) |-> list[i].name]

\* datetime arithmetic, in ticks
Datetime(day, tod) == day * TicksPerDay + tod
Timedelta(days) == days * TicksPerDay

\* datetime.strptime(token, '%Y-%m-%d') succeeds only on a date token
StrptimeOk(tokens) == Len(tokens) > 0 /\ tokens[1].kind = "date"

_is_protected_branch(branch, current) ==
    branch \in PROTECTED_BRANCHES \/ branch = current \/ branch = ""

_is_stale(commit_date, days, clock) ==
    IF commit_date = <<>> THEN FALSE
    ELSE IF ~StrptimeOk(commit_date) THEN FALSE
    ELSE LET commit_dt == Datetime(commit_date[1].val, 0)
             cutoff_dt == Datetime(clock.day, clock.tod) - Timedelta(days)
         IN  commit_dt < cutoff_dt

\* --------------------------------------------------- _get_branch_info
InfoInputs == [commit_date : CommitDateInputs, trackshort : TrackshortInputs]

BranchInfo(name, category, info, current) ==
    [name |-> name, category |-> category,
     commit_date |-> info.commit_date, trackshort |-> info.trackshort,
     is_protected |-> _is_protected_branch(name, current)]

\* --------------------------------------------------- analyze_branches
EmptyCategories == [c \in BranchCategory |-> <<>>]

\* IsAhead testing for the exact indicator '>' (a diverged '<>' is missed)
IsAhead_OnlyAhead(trackshort) == trackshort = <<">">>

\* `branch_info.trackshort and '>' in branch_info.trackshort`
IsAhead(trackshort) == Truthy(trackshort) /\ Contains(trackshort, ">")

\* `x in list` on a list of BranchInfo (dataclass equality)
InList(x, list) == \E i \in 1..Len(list) : list[i] = x

\* The lists hold references to one BranchInfo object per branch: assigning
\* branch_info.category changes the entries already appended for that branch.
Assign(cats, name, category) ==
    [c \in BranchCategory |->
        [i \in 1..Len(cats[c]) |->
            IF cats[c][i].name = name
            THEN [cats[c][i] EXCEPT !.category = category]
            ELSE cats[c][i]]]

AppendTo(cats, c, bi) == [cats EXCEPT ![c] = Append(@, bi)]

\* One iteration of the loop body for a branch that passed the gate.
Classify(cats, branch, info, merged, unmerged, gone, days, clock, current) ==
    LET bi0 == BranchInfo(branch, MERGED, info, current)
    IN  IF IsAhead(bi0.trackshort)
        THEN AppendTo(cats, AHEAD, [bi0 EXCEPT !.category = AHEAD])
        ELSE
          LET bi1 == IF branch \in gone
                     THEN [bi0 EXCEPT !.category = GONE_REMOTE] ELSE bi0
              c1  == IF branch \in gone
                     THEN AppendTo(cats, GONE_REMOTE, bi1) ELSE cats
              bi2 == IF branch \in merged
                     THEN [bi1 EXCEPT !.category = MERGED]
                     ELSE IF branch \in unmerged
                     THEN [bi1 EXCEPT !.category = UNMERGED] ELSE bi1
              c2  == IF branch \in merged
                     THEN AppendTo(Assign(c1, branch, MERGED), MERGED, bi2)
                     ELSE IF branch \in unmerged
                     THEN AppendTo(Assign(c1, branch, UNMERGED), UNMERGED, bi2)
                     ELSE c1
          IN  IF /\ _is_stale(bi2.commit_date, days, clock)
                 /\ bi2.category \notin {AHEAD}
                 /\ ~InList(bi2, c2[bi2.category])
              THEN AppendTo(c2, STALE, bi2)
              ELSE c2

\* The loop `for branch in all_branches`, from position i on.
RECURSIVE ClassifyFrom(_, _, _, _, _, _, _, _, _)
ClassifyFrom(i, cats, all, f, merged, unmerged, gone, days, clock) ==
    IF i > Len(all) THEN cats
    ELSE LET branch == all[i]
             next == IF _is_protected_branch(branch, current_branch)
                     THEN cats
                     ELSE Classify(cats, branch, f[branch], merged, unmerged,
                                   gone, days, clock, current_branch)
         IN  ClassifyFrom(i + 1, next, all, f, merged, unmerged, gone, days, clock)

\* Branches the loop asks _get_branch_info about.
Classified == {b \in BranchNames : ~_is_protected_branch(b, current_branch)}

\* ------------------------------------------------------------ initial states
Fresh ==
    /\ merged_branches = {}
    /\ unmerged_branches = {}
    /\ gone_branches = {}
    /\ facts = [b \in {} |-> 0]
    /\ categories = EmptyCategories
    /\ choice = ""
    /\ branches = <<>>
    /\ force = FALSE
    /\ confirmation = ""
    /\ deletes = <<>>
    /\ events = <<>>
    /\ arg_commit_date = <<>>
    /\ ret_is_stale = "pending"

\* main(): argparse accepts any integer for --stale-days; GitBranchCleanup is
\* constructed with it and with the detected current branch.
Init ==
    /\ pc = "constructed"
    /\ stale_days \in StaleDaysInputs
    /\ dry_run \in BOOLEAN
    /\ current_branch \in CurrentBranchInputs
    /\ now \in [day : {MaxDay}, tod : Tods]
    /\ Fresh

\* ------------------------------------------------------------------ actions
\* run(): `git rev-parse --git-dir`; exit(1) outside a repository.
RunCheckRepo ==
    /\ pc = "constructed"
    /\ \E code \in {0, 1} : pc' = IF code # 0 THEN "exit1" ELSE "analyze"
    /\ UNCHANGED <<stale_days, dry_run, current_branch, now, merged_branches,
                   unmerged_branches, gone_branches, facts, categories, choice,
                   branches, force, confirmation, deletes, events,
                   arg_commit_date, ret_is_stale>>

\* run(): categories = self.analyze_branches().  The merged and the unmerged
\* set come from two separate git queries; git never lists one branch in both.
AnalyzeBranches ==
    /\ pc = "analyze"
    /\ \E merged \in SUBSET BranchNames, gone \in SUBSET BranchNames :
       \E unmerged \in SUBSET (BranchNames \ merged) :
       \E f \in [Classified -> InfoInputs] :
          /\ merged_branches' = merged
          /\ unmerged_branches' = unmerged
          /\ gone_branches' = gone
          /\ facts' = f
          /\ categories' = ClassifyFrom(1, EmptyCategories, LocalBranches, f,
                                        merged, unmerged, gone, stale_days, now)
    /\ pc' = "display"
    /\ events' = Append(events, "analyzed")
    /\ UNCHANGED <<stale_days, dry_run, current_branch, now, choice, branches,
                   force, confirmation, deletes, arg_commit_date, ret_is_stale>>

\* run(): display_results(categories), then the dry-run return.
DisplayResults ==
    /\ pc = "display"
    /\ pc' = IF dry_run THEN "returned" ELSE "menu"
    /\ events' = Append(events, "displayed")
    /\ UNCHANGED <<stale_days, dry_run, current_branch, now, merged_branches,
                   unmerged_branches, gone_branches, facts, categories, choice,
                   branches, force, confirmation, deletes, arg_commit_date,
                   ret_is_stale>>

\* Selected with the Ahead list added to the bulk choices
Selected_WithAhead(answer, cats, selection) ==
    IF answer = "1" THEN Names(cats[MERGED]) \o Names(cats[AHEAD])
    ELSE IF answer = "2"
    THEN Names(cats[MERGED]) \o Names(cats[GONE_REMOTE]) \o Names(cats[AHEAD])
    ELSE selection

\* run(): the list handed to delete_branches for a menu answer.
Selected(answer, cats, selection) ==
    IF answer = "1" THEN Names(cats[MERGED])
    ELSE IF answer = "2" THEN Names(cats[MERGED]) \o Names(cats[GONE_REMOTE])
    ELSE selection

\* run(): the menu.  Answers 1, 2, 3 call delete_branches(branches, force=False).
ChooseCategory ==
    /\ pc = "menu"
    /\ \E answer \in ChoiceInputs, selection \in SelectionInputs :
          /\ choice' = answer
          /\ IF answer \in {"1", "2", "3"}
             THEN /\ branches' = Selected(answer, categories, selection)
                  /\ force' = FALSE
                  /\ events' = Append(events, "chosen")
                  /\ pc' = "delete"
             ELSE /\ UNCHANGED <<branches, force, events>>
                  /\ pc' = "returned"
    /\ UNCHANGED <<stale_days, dry_run, current_branch, now, merged_branches,
                   unmerged_branches, gone_branches, facts, categories,
                   confirmation, deletes, arg_commit_date, ret_is_stale>>

\* str.lower() on the answers that can be typed here
Lower(s) == IF s = "Y" THEN "y" ELSE s

\* Confirmed with the prompt's default inverted: anything but 'n' proceeds
Confirmed_UnlessNo(answer) == Lower(answer) # "n"

\* `confirmation.lower() != 'y'` cancels
Confirmed(answer) == Lower(answer) = "y"

\* the command list of the deletion loop
DeleteCommands(list, forced) ==
    [i \in 1..Len(list) |->
        [flag |-> IF forced THEN "-D" ELSE "-d", branch |-> list[i]]]

\* what the prompt and the deletion loop add to the program's history
DeleteEvents(list, answer) ==
    IF Confirmed(answer)
    THEN <<"confirmed">> \o [i \in 1..Len(list) |-> "delete"]
    ELSE <<"cancelled">>

\* delete_branches(branches, force), whole: empty list, dry run, prompt, loop.
DeleteBody(exit) ==
    /\ IF branches = <<>> \/ dry_run
       THEN UNCHANGED <<confirmation, deletes, events>>
       ELSE \E answer \in ConfirmationInputs :
              /\ confirmation' = answer
              /\ deletes' = IF Confirmed(answer)
                            THEN deletes \o DeleteCommands(branches, force)
                            ELSE deletes
              /\ events' = events \o DeleteEvents(branches, answer)
    /\ pc' = exit

DeleteBranches ==
    /\ pc = "delete"
    /\ DeleteBody("returned")
    /\ UNCHANGED <<stale_days, dry_run, current_branch, now, merged_branches,
                   unmerged_branches, gone_branches, facts, categories, choice,
                   branches, force, arg_commit_date, ret_is_stale>>

\* A caller other than run() invoking delete_branches(branches, force).
CallDeleteBranches ==
    /\ pc = "constructed"
    /\ \E list \in SelectionInputs, forced \in BOOLEAN :
          /\ branches' = list
          /\ force' = forced
    /\ pc' = "api_delete"
    /\ UNCHANGED <<stale_days, dry_run, current_branch, now, merged_branches,
                   unmerged_branches, gone_branches, facts, categories, choice,
                   confirmation, deletes, events, arg_commit_date, ret_is_stale>>

DeleteBranchesCalled ==
    /\ pc = "api_delete"
    /\ DeleteBody("api_returned")
    /\ UNCHANGED <<stale_days, dry_run, current_branch, now, merged_branches,
                   unmerged_branches, gone_branches, facts, categories, choice,
                   branches, force, arg_commit_date, ret_is_stale>>

Next ==
    \/ RunCheckRepo
    \/ AnalyzeBranches
    \/ DisplayResults
    \/ ChooseCategory
    \/ DeleteBranches
    \/ CallDeleteBranches
    \/ DeleteBranchesCalled

Spec == Init /\ [][Next]_vars

\* ------------------------------------------- _is_stale as a function of its inputs
InitStale ==
    /\ pc = "is_stale_call"
    /\ stale_days \in StaleDaysInputs
    /\ dry_run = FALSE
    /\ current_branch = ""
    /\ now \in [day : Days, tod : Tods]
    /\ merged_branches = {}
    /\ unmerged_branches = {}
    /\ gone_branches = {}
    /\ facts = [b \in {} |-> 0]
    /\ categories = EmptyCategories
    /\ choice = ""
    /\ branches = <<>>
    /\ force = FALSE
    /\ confirmation = ""
    /\ deletes = <<>>
    /\ events = <<>>
    /\ arg_commit_date \in CommitDateInputs
    /\ ret_is_stale = "pending"

IsStaleCall ==
    /\ pc = "is_stale_call"
    /\ ret_is_stale' = IF _is_stale(arg_commit_date, stale_days, now)
                       THEN "True" ELSE "False"
    /\ pc' = "is_stale_returned"
    /\ UNCHANGED <<stale_days, dry_run, current_branch, now, merged_branches,
                   unmerged_branches, gone_branches, facts, categories, choice,
                   branches, force, confirmation, deletes, events,
                   arg_commit_date>>

NextStale == IsStaleCall

SpecStale == InitStale /\ [][NextStale]_vars

\* ================================================================ properties
\* run() has obtained the result of analyze_branches
Analyzed == pc \in {"display", "menu", "delete", "returned"}

ValidPolicy == stale_days >= 0

InCategory(c, b) == \E i \in 1..Len(categories[c]) : categories[c][i].name = b

CategoriesOf(b) == {c \in BranchCategory : InCategory(c, b)}

\* the category field of every entry the result holds for b is c
CategoryFieldIs(b, c) ==
    \A k \in BranchCategory : \A i \in 1..Len(categories[k]) :
        categories[k][i].name = b => categories[k][i].category = c

\* the exclusion gate as the specification words it
Excluded(b) ==
    \/ b \in {"main", "master", "trunk", "develop", "development"}
    \/ b = current_branch
    \/ b = ""

NonExcluded == {b \in BranchNames : ~Excluded(b)}

TrackingAhead(b) == facts[b].trackshort \in {<<">">>, <<"<", ">">>}

\* staleness as the specification words it: the date is present and its
\* calendar day is strictly before the calendar day (today - staleDays)
OlderThanCutoff(commit_date, today, days) ==
    /\ commit_date # <<>>
    /\ commit_date[1].kind = "date"
    /\ commit_date[1].val < today - days

Old(b) == OlderThanCutoff(facts[b].commit_date, now.day, stale_days)

\* the categories rules 2-4 of the precedence list allow for a branch that is
\* not Ahead (a branch reported neither merged nor unmerged: either of the two)
PriorCategories(b) ==
    IF b \in gone_branches THEN {GONE_REMOTE}
    ELSE IF b \in merged_branches THEN {MERGED}
    ELSE IF b \in unmerged_branches THEN {UNMERGED}
    ELSE {MERGED, UNMERGED}

\* C1 (exclusivity): in the result of analyze_branches no branch appears in
\* more than one of the five category lists.
C1_Exclusivity ==
    (Analyzed /\ ValidPolicy) =>
        \A b \in BranchNames : Cardinality(CategoriesOf(b)) <= 1

\* C2 (Ahead priority): a non-excluded branch whose trackshort is '>' or '<>'
\* is categorized Ahead and appears only in the Ahead list, whether or not it
\* is merged, its remote is gone, or its last commit is old.
C2_AheadPriority ==
    Analyzed =>
        \A b \in NonExcluded :
            TrackingAhead(b) =>
                /\ CategoriesOf(b) = {AHEAD}
                /\ CategoryFieldIs(b, AHEAD)

\* C2's case: a diverged ('<>') branch that is merged, whose remote is gone and
\* whose last commit is older than the cutoff, has been classified.
C2_Witness ==
    /\ Analyzed
    /\ \E b \in NonExcluded :
          /\ facts[b].trackshort = <<"<", ">">>
          /\ b \in merged_branches
          /\ b \in gone_branches
          /\ Old(b)
          /\ InCategory(AHEAD, b)

\* C3 (staleness overlay): a non-excluded branch that is not Ahead and whose
\* last commit is older than the stale cutoff appears in the Stale list, and
\* its entry there keeps the original category (GoneRemote, Merged, Unmerged).
C3_StalenessOverlay ==
    (Analyzed /\ ValidPolicy) =>
        \A b \in NonExcluded :
            (~TrackingAhead(b) /\ Old(b)) =>
                /\ InCategory(STALE, b)
                /\ \E c \in PriorCategories(b) : CategoryFieldIs(b, c)

\* C4 (GoneRemote precedence): a non-excluded branch that is not Ahead, not
\* stale, and whose remote tracking ref is gone has category GoneRemote, is in
\* the GoneRemote list and in neither the Merged nor the Unmerged list.
C4_GoneRemotePrecedence ==
    (Analyzed /\ ValidPolicy) =>
        \A b \in NonExcluded :
            (~TrackingAhead(b) /\ ~Old(b) /\ b \in gone_branches) =>
                /\ InCategory(GONE_REMOTE, b)
                /\ ~InCategory(MERGED, b)
                /\ ~InCategory(UNMERGED, b)
                /\ CategoryFieldIs(b, GONE_REMOTE)

\* C5 (totality): every local branch that is not excluded appears in at least
\* one category list of the result.
C5_Totality ==
    (Analyzed /\ ValidPolicy) =>
        \A b \in NonExcluded : CategoriesOf(b) # {}

\* C6 (staleness predicate): _is_stale returns true iff the commit date is
\* present and its calendar date is strictly earlier than the calendar date
\* (today - staleDays), whatever the time of day of now and of the commit.
C6_StalenessPredicate ==
    (pc = "is_stale_returned" /\ ValidPolicy) =>
        (ret_is_stale = "True"
            <=> OlderThanCutoff(arg_commit_date, now.day, stale_days))

\* C7 (exclusion gate): a local branch appears in no category list iff it is
\* protected, the current branch, or empty.
C7_ExclusionGate ==
    (Analyzed /\ ValidPolicy) =>
        \A b \in BranchNames : (CategoriesOf(b) = {}) <=> Excluded(b)

Before(a, i) == \E j \in 1..(i - 1) : events[j] = a

\* position of the first occurrence of a in the history (0 when absent)
First(a) ==
    IF \E j \in 1..Len(events) : events[j] = a
    THEN CHOOSE j \in 1..Len(events) :
            events[j] = a /\ \A k \in 1..(j - 1) : events[k] # a
    ELSE 0

ViaRun == pc \in {"analyze", "display", "menu", "delete", "returned", "exit1"}

\* C8 (explicit-confirmation deletion): a branch-delete command is issued only
\* after the confirmation prompt was answered 'y' or 'Y', and, in a run, only
\* after classification finished, the results were displayed and a deletion
\* option was chosen, in that order; classification issues no delete; with
\* dry_run set no delete command is issued, neither via run nor via
\* delete_branches.
C8_ExplicitConfirmation ==
    /\ Len(deletes) = Cardinality({i \in 1..Len(events) : events[i] = "delete"})
    /\ dry_run => deletes = <<>>
    /\ pc \in {"constructed", "analyze", "display", "menu", "delete"} =>
          deletes = <<>>
    /\ \A i \in 1..Len(events) :
          events[i] = "delete" =>
             /\ confirmation \in {"y", "Y"}
             /\ Before("confirmed", i)
             /\ ViaRun =>
                   /\ choice \in {"1", "2", "3"}
                   /\ 0 < First("analyzed")
                   /\ First("analyzed") < First("displayed")
                   /\ First("displayed") < First("chosen")
                   /\ First("chosen") < First("confirmed")
                   /\ First("confirmed") < i

\* C8's case: a run has deleted a branch after the answer 'Y'.
C8_Witness ==
    /\ pc = "returned"
    /\ deletes # <<>>
    /\ confirmation = "Y"

\* C9 (InvalidPolicy fail-fast): with a negative staleDays no classification
\* runs and no classification result is produced.
C9_FailFast ==
    stale_days < 0 => ~Analyzed

\* C10 (bulk-deletion selection safety): under menu choice 1 or 2 the list
\* passed to delete_branches holds no Ahead branch, no protected branch and not
\* the current branch; under choice 1 every name is of a branch reported as
\* merged into the base; every delete issued from run is non-forced.
C10_BulkSelectionSafety ==
    /\ (pc \in {"delete", "returned"} /\ choice \in {"1", "2"}) =>
          \A i \in 1..Len(branches) :
             /\ ~InCategory(AHEAD, branches[i])
             /\ branches[i] \in DOMAIN facts
             /\ ~TrackingAhead(branches[i])
             /\ ~Excluded(branches[i])
             /\ choice = "1" => branches[i] \in merged_branches
    /\ ViaRun =>
          /\ force = FALSE
          /\ \A i \in 1..Len(deletes) : deletes[i].flag = "-d"

\* C10's case: 'merged + remote-gone' was chosen and a branch whose remote is
\* gone, not merged, was deleted.
C10_Witness ==
    /\ pc = "returned"
    /\ choice = "2"
    /\ \E i \in 1..Len(deletes) :
          /\ deletes[i].branch \in gone_branches
          /\ deletes[i].branch \notin merged_branches

====
